---- MODULE Spec2Model ----
(***************************************************************************)
(* Model of go-patch-cover's coverage correlation (src/cover.go):          *)
(* ProcessFiles parses a diff and one or two coverage profiles, and        *)
(* computeCoverage / printUncoveredLines correlate them into CoverageData. *)
(*                                                                         *)
(* Strings are sequences of one-character strings, so that HasSuffix,      *)
(* HasPrefix, TrimSpace, Contains and ReplaceAll are computed as the Go    *)
(* library computes them.  float64 percentages are modelled by their exact *)
(* rational value <<numerator, denominator>> in lowest terms; floating     *)
(* point rounding is not modelled.                                         *)
(***************************************************************************)
EXTENDS Integers, Sequences, FiniteSets, TLC

\* ------------------------------------------------------------------------
\* Bounds of the explored input space
\* ------------------------------------------------------------------------
\* lines of one diff file, over all of its hunks
MaxLines == 3
\* hunks (gitdiff text fragments) of one diff file
MaxHunks == 2
\* blocks of one profile entry
MaxBlocks == 2
\* files of one diff
MaxDiffFiles == 2
\* entries of one coverage profile
MaxProfiles == 2

\* ------------------------------------------------------------------------
\* strings (package strings)
\* ------------------------------------------------------------------------
HasPrefix(s, prefix) ==
  /\ Len(prefix) <= Len(s)
  /\ SubSeq(s, 1, Len(prefix)) = prefix

\* faulty variant of HasSuffix: the names have to be equal
HasSuffixEqual(s, suffix) ==
  s = suffix

HasSuffix(s, suffix) ==
  /\ Len(suffix) <= Len(s)
  /\ SubSeq(s, Len(s) - Len(suffix) + 1, Len(s)) = suffix

Contains(s, substr) ==
  \E i \in 1..(Len(s) - Len(substr) + 1) : SubSeq(s, i, i + Len(substr) - 1) = substr

\* the character U+0060, which SANY does not accept inside a string
backquote == "bq"

\* the ASCII white space unicode.IsSpace accepts
IsSpace(c) ==
  c \in {" ", "\t", "\n", "\r", "\f"}

RECURSIVE TrimLeft(_)
TrimLeft(s) ==
  IF s # <<>> /\ IsSpace(Head(s)) THEN TrimLeft(Tail(s)) ELSE s

RECURSIVE TrimRight(_)
TrimRight(s) ==
  IF s # <<>> /\ IsSpace(s[Len(s)]) THEN TrimRight(SubSeq(s, 1, Len(s) - 1)) ELSE s

TrimSpace(s) ==
  TrimRight(TrimLeft(s))

\* strings.ReplaceAll(s, old, "") for a one-character old
RemoveAll(s, old) ==
  SelectSeq(s, LAMBDA c : c # old)

\* ------------------------------------------------------------------------
\* Line classifier
\* ------------------------------------------------------------------------
isInvalidLine(line) ==
  LET l == TrimSpace(line) IN
    \/ HasPrefix(l, <<"/", "/">>)
    \/ HasPrefix(l, <<"/", "*">>)
    \/ HasSuffix(l, <<"*", "/">>)
    \/ l = <<>>
    \/ Contains(l, <<backquote, "j", "s", "o", "n", ":">>)

\* faulty variant of isLineCovered: the counts are not compared
isLineCoveredAnyCount(line, lines) ==
  \E k \in 1..Len(lines) :
    /\ lines[k].LineNum = line.LineNum
    /\ lines[k].LineString = line.LineString

isLineCovered(line, lines) ==
  \E k \in 1..Len(lines) :
    /\ lines[k].LineNum = line.LineNum
    /\ lines[k].LineString = line.LineString
    /\ lines[k].CoverCount = line.CoverCount

\* ------------------------------------------------------------------------
\* Parsed inputs: gitdiff.File / TextFragment / Line, cover.Profile / Block
\* ------------------------------------------------------------------------
OpContext == "OpContext"
OpDelete == "OpDelete"
OpAdd == "OpAdd"

DiffLine(op, text) ==
  [Op |-> op, Line |-> text]

TextFragment(pos, lines) ==
  [NewPosition |-> pos, Lines |-> lines]

DiffFile(name, frags) ==
  [NewName |-> name, TextFragments |-> frags]

ProfileBlock(start, end, numStmt, count) ==
  [StartLine |-> start, EndLine |-> end, NumStmt |-> numStmt, Count |-> count]

Profile(name, blocks) ==
  [FileName |-> name, Blocks |-> blocks]

\* line texts as gitdiff delivers them, with the trailing newline
tCode == <<"x", "\n">>
tBlank == <<"\n">>
tSpaces == <<" ", "\t", "\n">>
tComment == <<" ", "/", "/", "c", "\n">>
tBlockOpen == <<"/", "*", "c", "\n">>
tBlockClose == <<"c", "*", "/", "\n">>
tJsonTag == <<"x", " ", backquote, "j", "s", "o", "n", ":", "\"", "x", "\"", backquote, "\n">>
tSlash == <<"x", "/", "/", "c", "\n">>

AddTexts ==
  {tCode, tBlank}

AllTexts ==
  {tCode, tBlank, tSpaces, tComment, tBlockOpen, tBlockClose, tJsonTag, tSlash}

\* file names
nA == <<"a">>
nPA == <<"p", "/", "a">>
nB == <<"b">>
nMA == <<"m", "/", "a">>
nMPA == <<"m", "/", "p", "/", "a">>
nMZ == <<"m", "/", "z">>
nPkgFile == <<"p", "k", "g", "/", "f", "i", "l", "e", ".", "g", "o">>
nRepoPkgFile == <<"g", "i", "t", "h", "u", "b", ".", "c", "o", "m", "/", "o", "r", "g", "/", "r", "e", "p", "o", "/", "p", "k", "g", "/", "f", "i", "l", "e", ".", "g", "o">>

DiffNames ==
  {nA, nPA, nB}

\* cover.ParseProfiles returns the entries sorted by file name
ProfileNames ==
  <<nMA, nMPA, nMZ>>

Positions ==
  {1, 2}

BlockRanges ==
  {<<1, 1>>, <<1, 2>>, <<2, 2>>}

NumStmts ==
  {0, 1, 2}

Counts ==
  {0, 1}

\* number of lines a hunk contributes to the new file
NewLen(lines) ==
  Len(SelectSeq(lines, LAMBDA l : l.Op # OpDelete))

LineOpts ==
  {DiffLine(OpAdd, t) : t \in AddTexts} \cup {DiffLine(OpContext, tCode), DiffLine(OpDelete, tCode)}

LineSeqs(n) ==
  UNION {[1..k -> LineOpts] : k \in 1..n}

\* hunks of one file: ascending, not overlapping in the new file
RECURSIVE FragSeqs(_, _, _)
FragSeqs(minPos, lines, hunks) ==
  {<<>>} \cup
    IF hunks = 0 \/ lines = 0 THEN {}
    ELSE UNION { {<<TextFragment(p, l)>> \o r :
                    r \in FragSeqs(p + NewLen(l), lines - Len(l), hunks - 1)} :
                 p \in {q \in Positions : q >= minPos}, l \in LineSeqs(lines) }

AllBlocks ==
  {ProfileBlock(r[1], r[2], n, c) : r \in BlockRanges, n \in NumStmts, c \in Counts}

\* blocks of one entry: cover.ParseProfiles sorts them by start line
RECURSIVE BlockSeqs(_, _)
BlockSeqs(minStart, n) ==
  {<<>>} \cup
    IF n = 0 THEN {}
    ELSE UNION { {<<b>> \o r : r \in BlockSeqs(b.StartLine, n - 1)} :
                 b \in {x \in AllBlocks : x.StartLine >= minStart} }

\* one Add line at line 1, and one block on line 1
SimpleFrags ==
  {<<TextFragment(1, <<DiffLine(OpAdd, t)>>)>> : t \in AddTexts}

SimpleBlocks ==
  {<<ProfileBlock(1, 1, n, c)>> : n \in NumStmts, c \in Counts}

\* diffs of up to n files with distinct new names
RECURSIVE DiffSeqs(_, _)
DiffSeqs(names, n) ==
  {<<>>} \cup
    IF n = 0 THEN {}
    ELSE UNION { {<<DiffFile(nm, fr)>> \o r : r \in DiffSeqs(names \ {nm}, n - 1)} :
                 nm \in names, fr \in SimpleFrags }

\* profiles of up to n entries, in the order of ProfileNames
RECURSIVE ProfileSeqs(_, _)
ProfileSeqs(minIdx, n) ==
  {<<>>} \cup
    IF n = 0 THEN {}
    ELSE UNION { {<<Profile(ProfileNames[i], bl)>> \o r : r \in ProfileSeqs(i + 1, n - 1)} :
                 i \in minIdx..Len(ProfileNames), bl \in SimpleBlocks }

NoPrev ==
  [file |-> <<>>, profiles |-> <<>>]

Prev(profiles) ==
  [file |-> <<"p", "r", "e", "v">>, profiles |-> profiles]

\* a family of inputs: every diff of it with every profile and previous profile of it
Slice(ds, ps, pvs) ==
  [diffs |-> ds, covers |-> ps, prevs |-> pvs]

OneAdd(t) ==
  <<DiffFile(nA, <<TextFragment(1, <<DiffLine(OpAdd, t)>>)>>)>>

\* one file and one single-block entry: every arrangement of hunks and lines
HunkInputs ==
  Slice({<<DiffFile(nA, fr)>> : fr \in FragSeqs(1, MaxLines, MaxHunks) \ {<<>>}},
        {<<Profile(nMA, <<b>>)>> : b \in AllBlocks},
        {NoPrev})

\* one file with two added lines: every arrangement of blocks
BlockInputs ==
  Slice({<<DiffFile(nA, <<TextFragment(1, <<DiffLine(OpAdd, t1), DiffLine(OpAdd, t2)>>)>>)>> :
           t1 \in AddTexts, t2 \in AddTexts},
        {<<Profile(nMA, bl)>> : bl \in BlockSeqs(1, MaxBlocks)},
        {NoPrev})

\* every arrangement of diff files and profile entries
FileInputs ==
  Slice(DiffSeqs(DiffNames, MaxDiffFiles), ProfileSeqs(1, MaxProfiles), {NoPrev})

\* every kind of line text
TextInputs ==
  Slice({OneAdd(t) : t \in AllTexts},
        {<<Profile(nMA, <<ProfileBlock(1, 1, 1, c)>>)>> : c \in Counts},
        {NoPrev})

\* a previous profile supplied
PrevInputs ==
  Slice({OneAdd(tCode)},
        {<<Profile(nMA, <<ProfileBlock(1, 1, 1, c)>>)>> : c \in Counts},
        {Prev(pv) : pv \in ProfileSeqs(1, MaxProfiles)})

\* the scenarios of the specification, literally
Add3(name, pos) ==
  DiffFile(name, <<TextFragment(pos, <<DiffLine(OpAdd, tCode), DiffLine(OpAdd, tCode), DiffLine(OpAdd, tCode)>>)>>)

ScenarioA ==
  Slice({<<Add3(nA, 10)>>}, {<<Profile(nMA, <<ProfileBlock(10, 12, 2, 3)>>)>>}, {NoPrev})

ScenarioB ==
  Slice({<<Add3(nA, 10)>>}, {<<Profile(nMA, <<ProfileBlock(10, 12, 2, 0)>>)>>}, {NoPrev})

ScenarioC ==
  Slice({<<DiffFile(nA, <<TextFragment(20, <<DiffLine(OpAdd, tBlank)>>)>>)>>},
        {<<Profile(nMA, <<ProfileBlock(20, 20, 2, 0)>>)>>}, {NoPrev})

ScenarioE ==
  Slice({<<Add3(nB, 10)>>}, {<<Profile(nMA, <<ProfileBlock(10, 12, 2, 3)>>)>>}, {NoPrev})

ScenarioSuffix ==
  Slice({<<Add3(nPkgFile, 10)>>}, {<<Profile(nRepoPkgFile, <<ProfileBlock(10, 12, 2, 3)>>)>>}, {NoPrev})

Inputs ==
  {HunkInputs, BlockInputs, FileInputs, TextInputs, PrevInputs,
   ScenarioA, ScenarioB, ScenarioC, ScenarioE, ScenarioSuffix}

\* ------------------------------------------------------------------------
\* State
\* ------------------------------------------------------------------------
VARIABLES
  pc,                     \* position in ProcessFiles / computeCoverage
  prevCovFile,            \* argument of ProcessFiles: "" when no previous profile is given
  diffFiles,              \* files, parsed by gitdiff.Parse
  coverProfiles,          \* profiles, parsed by cover.ParseProfiles
  prevCoverProfiles,      \* prevProfiles
  data,                   \* the CoverageData being built / returned
  coveredLines,           \* map[string][]Line
  partiallyCoveredLines,  \* map[string][]Line
  uncovered_lines_txt,    \* the file uncovered_lines.txt: <<>> while it does not exist, <<contents>> once created
  err,                    \* the error ProcessFiles returns, "" for nil
  credited,               \* history: the (profile, file, block, hunk, line) of every execution of cover.go:118
  results                 \* history: the CoverageData of the calls that have returned

\* the state of the exclusion filter (exclude_files.go)
VARIABLES
  RepoName,               \* utility.RepoName
  excludedPatterns,       \* argument of shouldExcludeFile: the comma-separated patterns
  filePath,               \* argument of shouldExcludeFile
  excluded,               \* what shouldExcludeFile returned: <<>> before the call, <<result>> after it
  pattern,                \* argument of matchesPattern
  file,                   \* argument of matchesPattern
  matched                 \* what matchesPattern returned: <<>> before the call, <<result>> after it

coverVars ==
  <<pc, prevCovFile, diffFiles, coverProfiles, prevCoverProfiles, data, coveredLines,
    partiallyCoveredLines, uncovered_lines_txt, err, credited, results>>

excludeVars ==
  <<RepoName, excludedPatterns, filePath, excluded, pattern, file, matched>>

vars ==
  <<pc, prevCovFile, diffFiles, coverProfiles, prevCoverProfiles, data, coveredLines,
    partiallyCoveredLines, uncovered_lines_txt, err, credited, results,
    RepoName, excludedPatterns, filePath, excluded, pattern, file, matched>>

\* a float64, by its exact value num/den in lowest terms
RECURSIVE GCD(_, _)
GCD(a, b) ==
  IF b = 0 THEN a ELSE GCD(b, a % b)

Abs(x) ==
  IF x < 0 THEN 0 - x ELSE x

Ratio(num, den) ==
  LET g == GCD(Abs(num), Abs(den)) IN
    IF den < 0 THEN <<(0 - num) \div g, (0 - den) \div g>> ELSE <<num \div g, den \div g>>

Float(n) ==
  <<n, 1>>

\* float64(count) / float64(stmts) * 100
Percent(count, stmts) ==
  Ratio(count * 100, stmts)

\* CoverageData{}
ZeroCoverageData ==
  [NumStmt |-> 0, CoverCount |-> 0, Coverage |-> Float(0),
   PatchNumStmt |-> 0, PatchCoverCount |-> 0, PatchCoverage |-> Float(0),
   HasPrevCoverage |-> FALSE, PrevNumStmt |-> 0, PrevCoverCount |-> 0, PrevCoverage |-> Float(0),
   Uncovered_lines |-> <<>>]

Line(lineNum, numStmt, coverCount, lineString) ==
  [LineNum |-> lineNum, NumStmt |-> numStmt, CoverCount |-> coverCount, LineString |-> lineString]

\* m[k] = append(m[k], v) on a Go map
MapAppend(m, k, v) ==
  [x \in (DOMAIN m) \cup {k} |->
     IF x = k THEN (IF k \in DOMAIN m THEN Append(m[k], v) ELSE <<v>>) ELSE m[x]]

EmptyMap ==
  <<>>

\* the exclusion filter is not called by ProcessFiles
ExcludeIdle ==
  /\ RepoName = <<>>
  /\ excludedPatterns = <<>>
  /\ filePath = <<>>
  /\ excluded = <<>>
  /\ pattern = <<>>
  /\ file = <<>>
  /\ matched = <<>>

Init ==
  /\ pc = "open"
  /\ prevCovFile \in {pv.file : pv \in UNION {i.prevs : i \in Inputs}}
  /\ diffFiles = <<>>
  /\ coverProfiles = <<>>
  /\ prevCoverProfiles = <<>>
  /\ data = ZeroCoverageData
  /\ coveredLines = EmptyMap
  /\ partiallyCoveredLines = EmptyMap
  /\ uncovered_lines_txt = <<>>
  /\ err = ""
  /\ credited = <<>>
  /\ results = <<>>
  /\ ExcludeIdle

\* ------------------------------------------------------------------------
\* ProcessFiles: opening and parsing
\* ------------------------------------------------------------------------
\* faulty variant of Fail: the error is recorded and computeCoverage is called all the same
FailAndCorrelate(e) ==
  /\ pc' = "patch"
  /\ err' = e
  /\ UNCHANGED excludeVars
  /\ UNCHANGED <<prevCovFile, diffFiles, coverProfiles, prevCoverProfiles, data, coveredLines,
                 partiallyCoveredLines, uncovered_lines_txt, credited, results>>

\* return CoverageData{}, err
Fail(e) ==
  /\ pc' = "error"
  /\ err' = e
  /\ data' = ZeroCoverageData
  /\ diffFiles' = <<>>
  /\ coverProfiles' = <<>>
  /\ prevCoverProfiles' = <<>>
  /\ UNCHANGED excludeVars
  /\ UNCHANGED <<prevCovFile, coveredLines, partiallyCoveredLines, uncovered_lines_txt, credited, results>>

OpenDiff ==
  /\ pc = "open"
  /\ pc' = "parseDiff"
  /\ UNCHANGED excludeVars
  /\ UNCHANGED <<prevCovFile, diffFiles, coverProfiles, prevCoverProfiles, data, coveredLines,
                 partiallyCoveredLines, uncovered_lines_txt, err, credited, results>>

OpenDiffFails ==
  /\ pc = "open"
  /\ Fail("open")

ParseDiff ==
  /\ pc = "parseDiff"
  /\ \E i \in Inputs :
       /\ \E pv \in i.prevs : pv.file = prevCovFile
       /\ \E d \in i.diffs : diffFiles' = d
  /\ pc' = "parseProfiles"
  /\ UNCHANGED excludeVars
  /\ UNCHANGED <<prevCovFile, coverProfiles, prevCoverProfiles, data, coveredLines,
                 partiallyCoveredLines, uncovered_lines_txt, err, credited, results>>

ParseDiffFails ==
  /\ pc = "parseDiff"
  /\ Fail("gitdiff.Parse")

ParseProfiles ==
  /\ pc = "parseProfiles"
  /\ \E i \in Inputs :
       /\ \E pv \in i.prevs : pv.file = prevCovFile
       /\ diffFiles \in i.diffs
       /\ \E p \in i.covers : coverProfiles' = p
  /\ pc' = "parsePrev"
  /\ UNCHANGED excludeVars
  /\ UNCHANGED <<prevCovFile, diffFiles, prevCoverProfiles, data, coveredLines,
                 partiallyCoveredLines, uncovered_lines_txt, err, credited, results>>

ParseProfilesFails ==
  /\ pc = "parseProfiles"
  /\ Fail("cover.ParseProfiles")

\* prevProfiles stays nil when prevCovFile is ""
ParsePrevProfiles ==
  /\ pc = "parsePrev"
  /\ IF prevCovFile # <<>>
       THEN \E i \in Inputs :
              /\ diffFiles \in i.diffs
              /\ coverProfiles \in i.covers
              /\ \E pv \in i.prevs : pv.file = prevCovFile /\ prevCoverProfiles' = pv.profiles
       ELSE prevCoverProfiles' = <<>>
  /\ pc' = "patch"
  /\ UNCHANGED excludeVars
  /\ UNCHANGED <<prevCovFile, diffFiles, coverProfiles, data, coveredLines,
                 partiallyCoveredLines, uncovered_lines_txt, err, credited, results>>

ParsePrevProfilesFails ==
  /\ pc = "parsePrev"
  /\ prevCovFile # <<>>
  /\ Fail("cover.ParseProfiles prev")

\* ------------------------------------------------------------------------
\* computeCoverage: patch coverage (cover.go:96-144)
\* ------------------------------------------------------------------------
\* lineNum := int(t.NewPosition) + i, for the k-th line of t (i = k - 1)
LineNumOf(t, k) ==
  t.NewPosition + (k - 1)

\* the block b is hit by the Add line k of hunk t
Hit(b, t, k) ==
  /\ t.Lines[k].Op = OpAdd
  /\ b.StartLine <= LineNumOf(t, k)
  /\ LineNumOf(t, k) <= b.EndLine

\* for i, line := range t.Lines: the first line from k on that hits b, 0 when there is none
RECURSIVE LineLoop(_, _, _)
LineLoop(b, t, k) ==
  IF k > Len(t.Lines) THEN 0
  ELSE IF Hit(b, t, k) THEN k
  ELSE LineLoop(b, t, k + 1)

\* for _, t := range f.TextFragments: the first <<hunk, line>> from hunk ti on that hits b
RECURSIVE FragmentLoop(_, _, _)
FragmentLoop(b, f, ti) ==
  IF ti > Len(f.TextFragments) THEN <<0, 0>>
  ELSE LET k == LineLoop(b, f.TextFragments[ti], 1) IN
         IF k # 0 THEN <<ti, k>> ELSE FragmentLoop(b, f, ti + 1)

\* faulty variant of Credit: the block counts as covered whatever its Count
CreditAsCovered(acc, pi, fi, bi, ti, k) ==
  LET p == coverProfiles[pi]
      b == p.Blocks[bi]
      t == diffFiles[fi].TextFragments[ti]
      lineNum == LineNumOf(t, k)
      lineString == RemoveAll(t.Lines[k].Line, "\n")
      l == Line(lineNum, b.NumStmt, b.Count, lineString)
  IN [data |-> [acc.data EXCEPT
                  !.PatchNumStmt = @ + b.NumStmt,
                  !.PatchCoverCount = @ + b.NumStmt],
      coveredLines |->
        IF b.Count > 0 THEN MapAppend(acc.coveredLines, p.FileName, l) ELSE acc.coveredLines,
      partiallyCoveredLines |->
        IF b.Count > 0 THEN acc.partiallyCoveredLines
        ELSE MapAppend(acc.partiallyCoveredLines, p.FileName, l),
      credited |->
        Append(acc.credited, [p |-> pi, f |-> fi, b |-> bi, t |-> ti, k |-> k, lineNum |-> lineNum])]

\* cover.go:118-137: the block bi of profile pi is credited for line k of hunk ti of file fi
Credit(acc, pi, fi, bi, ti, k) ==
  LET p == coverProfiles[pi]
      b == p.Blocks[bi]
      t == diffFiles[fi].TextFragments[ti]
      lineNum == LineNumOf(t, k)
      lineString == RemoveAll(t.Lines[k].Line, "\n")
      l == Line(lineNum, b.NumStmt, b.Count, lineString)
  IN [data |-> [acc.data EXCEPT
                  !.PatchNumStmt = @ + b.NumStmt,
                  !.PatchCoverCount = IF b.Count > 0 THEN @ + b.NumStmt ELSE @],
      coveredLines |->
        IF b.Count > 0 THEN MapAppend(acc.coveredLines, p.FileName, l) ELSE acc.coveredLines,
      partiallyCoveredLines |->
        IF b.Count > 0 THEN acc.partiallyCoveredLines
        ELSE MapAppend(acc.partiallyCoveredLines, p.FileName, l),
      credited |->
        Append(acc.credited, [p |-> pi, f |-> fi, b |-> bi, t |-> ti, k |-> k, lineNum |-> lineNum])]

\* faulty variant of BlockLoop: without continue blockloop, every hit of a block is credited
RECURSIVE CreditEveryHit(_, _, _, _, _, _)
CreditEveryHit(acc, pi, fi, bi, ti, k) ==
  IF ti > Len(diffFiles[fi].TextFragments) THEN acc
  ELSE IF k > Len(diffFiles[fi].TextFragments[ti].Lines) THEN CreditEveryHit(acc, pi, fi, bi, ti + 1, 1)
  ELSE CreditEveryHit(IF Hit(coverProfiles[pi].Blocks[bi], diffFiles[fi].TextFragments[ti], k)
                        THEN Credit(acc, pi, fi, bi, ti, k)
                        ELSE acc,
                      pi, fi, bi, ti, k + 1)

RECURSIVE BlockLoopNoContinue(_, _, _, _)
BlockLoopNoContinue(acc, pi, fi, bi) ==
  IF bi > Len(coverProfiles[pi].Blocks) THEN acc
  ELSE BlockLoopNoContinue(CreditEveryHit(acc, pi, fi, bi, 1, 1), pi, fi, bi + 1)

\* blockloop: for _, b := range p.Blocks, with continue blockloop after the first hit
RECURSIVE BlockLoop(_, _, _, _)
BlockLoop(acc, pi, fi, bi) ==
  IF bi > Len(coverProfiles[pi].Blocks) THEN acc
  ELSE LET hit == FragmentLoop(coverProfiles[pi].Blocks[bi], diffFiles[fi], 1) IN
         BlockLoop(IF hit[1] # 0 THEN Credit(acc, pi, fi, bi, hit[1], hit[2]) ELSE acc,
                   pi, fi, bi + 1)

\* faulty variant of FileLoop: the blocks are walked against every diff file, matched or not
RECURSIVE FileLoopEveryFile(_, _, _)
FileLoopEveryFile(acc, pi, fi) ==
  IF fi > Len(diffFiles) THEN acc
  ELSE FileLoopEveryFile(BlockLoop(acc, pi, fi, 1), pi, fi + 1)

\* for _, f := range diffFiles
RECURSIVE FileLoop(_, _, _)
FileLoop(acc, pi, fi) ==
  IF fi > Len(diffFiles) THEN acc
  ELSE FileLoop(IF HasSuffix(coverProfiles[pi].FileName, diffFiles[fi].NewName)
                  THEN BlockLoop(acc, pi, fi, 1)
                  ELSE acc,
                pi, fi + 1)

\* for _, p := range coverProfiles
RECURSIVE ProfileLoop(_, _)
ProfileLoop(acc, pi) ==
  IF pi > Len(coverProfiles) THEN acc
  ELSE ProfileLoop(FileLoop(acc, pi, 1), pi + 1)

PatchCoverage ==
  /\ pc = "patch"
  /\ LET acc == ProfileLoop([data |-> data, coveredLines |-> coveredLines,
                             partiallyCoveredLines |-> partiallyCoveredLines,
                             credited |-> credited], 1)
     IN /\ data' = acc.data
        /\ coveredLines' = acc.coveredLines
        /\ partiallyCoveredLines' = acc.partiallyCoveredLines
        /\ credited' = acc.credited
  /\ pc' = "total"
  /\ UNCHANGED excludeVars
  /\ UNCHANGED <<prevCovFile, diffFiles, coverProfiles, prevCoverProfiles,
                 uncovered_lines_txt, err, results>>

\* ------------------------------------------------------------------------
\* computeCoverage: total coverage (cover.go:146-164)
\* ------------------------------------------------------------------------
\* faulty variant of SumBlocks: every block counts as covered
RECURSIVE SumBlocksAllCovered(_, _, _)
SumBlocksAllCovered(tot, blocks, bi) ==
  IF bi > Len(blocks) THEN tot
  ELSE LET b == blocks[bi] IN
         SumBlocksAllCovered(<<tot[1] + b.NumStmt, tot[2] + b.NumStmt>>, blocks, bi + 1)

\* <<sum of NumStmt, sum of NumStmt where Count > 0>> over blocks[bi..]
RECURSIVE SumBlocks(_, _, _)
SumBlocks(tot, blocks, bi) ==
  IF bi > Len(blocks) THEN tot
  ELSE LET b == blocks[bi] IN
         SumBlocks(<<tot[1] + b.NumStmt, IF b.Count > 0 THEN tot[2] + b.NumStmt ELSE tot[2]>>,
                   blocks, bi + 1)

RECURSIVE SumProfiles(_, _, _)
SumProfiles(tot, profiles, pi) ==
  IF pi > Len(profiles) THEN tot
  ELSE SumProfiles(SumBlocks(tot, profiles[pi].Blocks, 1), profiles, pi + 1)

TotalCoverage ==
  /\ pc = "total"
  /\ LET tot == SumProfiles(<<data.NumStmt, data.CoverCount>>, coverProfiles, 1) IN
       data' = [data EXCEPT !.NumStmt = tot[1], !.CoverCount = tot[2]]
  /\ pc' = "prevTotal"
  /\ UNCHANGED excludeVars
  /\ UNCHANGED <<prevCovFile, diffFiles, coverProfiles, prevCoverProfiles, coveredLines,
                 partiallyCoveredLines, uncovered_lines_txt, err, credited, results>>

PrevTotalCoverage ==
  /\ pc = "prevTotal"
  /\ LET tot == SumProfiles(<<data.PrevNumStmt, data.PrevCoverCount>>, prevCoverProfiles, 1) IN
       data' = [data EXCEPT !.PrevNumStmt = tot[1], !.PrevCoverCount = tot[2]]
  /\ pc' = "print"
  /\ UNCHANGED excludeVars
  /\ UNCHANGED <<prevCovFile, diffFiles, coverProfiles, prevCoverProfiles, coveredLines,
                 partiallyCoveredLines, uncovered_lines_txt, err, credited, results>>

\* ------------------------------------------------------------------------
\* printUncoveredLines (cover.go:195-254)
\* ------------------------------------------------------------------------
Digit(d) ==
  <<"0", "1", "2", "3", "4", "5", "6", "7", "8", "9">>[d + 1]

\* fmt's %d of a non-negative int
RECURSIVE Itoa(_)
Itoa(n) ==
  IF n < 10 THEN <<Digit(n)>> ELSE Itoa(n \div 10) \o <<Digit(n % 10)>>

\* the text written for one kept line (cover.go:233-238)
LineText(line) ==
  <<"LineNum: ">> \o Itoa(line.LineNum) \o <<"\n">>
    \o <<"Lines:\n <code>">> \o line.LineString \o <<"</code>\n">>

RECURSIVE LinesText(_, _)
LinesText(lines, k) ==
  IF k > Len(lines) THEN <<>> ELSE LineText(lines[k]) \o LinesText(lines, k + 1)

SectionHeader(fileName) ==
  <<"<pre>\n">> \o <<"Uncovered lines in ">> \o fileName \o <<":\n">>

\* the section of one file (cover.go:228-243): nothing when no line is kept
SectionText(fileName, uncoveredLines) ==
  IF Len(uncoveredLines) > 0
    THEN SectionHeader(fileName) \o LinesText(uncoveredLines, 1)
           \o <<"\n-----------------------\n">> \o <<"</pre>\n">>
    ELSE <<>>

\* faulty variant of CandidateLoop: an invalid uncovered line is taken out of PatchCoverCount too
RECURSIVE CandidateLoopBothCounts(_, _, _, _)
CandidateLoopBothCounts(st, fileName, lines, k) ==
  IF k > Len(lines) THEN st
  ELSE LET line == lines[k]
           ok == fileName \in DOMAIN coveredLines
           uncovered == ~ok \/ ~isLineCovered(line, coveredLines[fileName])
       IN CandidateLoopBothCounts(
            IF ~isInvalidLine(line.LineString)
              THEN IF uncovered
                     THEN [st EXCEPT !.uncoveredLines = Append(@, line)]
                     ELSE st
              ELSE [st EXCEPT
                      !.data.PatchNumStmt = @ - line.NumStmt,
                      !.data.PatchCoverCount = @ - line.NumStmt],
            fileName, lines, k + 1)

\* for _, line := range lines (cover.go:211-225), from line k on
RECURSIVE CandidateLoop(_, _, _, _)
CandidateLoop(st, fileName, lines, k) ==
  IF k > Len(lines) THEN st
  ELSE LET line == lines[k]
           ok == fileName \in DOMAIN coveredLines
           uncovered == ~ok \/ ~isLineCovered(line, coveredLines[fileName])
       IN CandidateLoop(
            IF ~isInvalidLine(line.LineString)
              THEN IF uncovered
                     THEN [st EXCEPT !.uncoveredLines = Append(@, line)]
                     ELSE st
              ELSE [st EXCEPT
                      !.data.PatchNumStmt = @ - line.NumStmt,
                      !.data.PatchCoverCount = IF ~uncovered THEN @ - line.NumStmt ELSE @],
            fileName, lines, k + 1)

\* for fileName, lines := range partiallyCoveredLines, in the order the map yields its keys
RECURSIVE RangeLoop(_, _, _)
RangeLoop(st, order, n) ==
  IF n > Len(order) THEN st
  ELSE LET fileName == order[n]
           r == CandidateLoop([data |-> st.data, uncoveredLines |-> <<>>],
                              fileName, partiallyCoveredLines[fileName], 1)
       IN RangeLoop([data |-> r.data, file |-> st.file \o SectionText(fileName, r.uncoveredLines)],
                    order, n + 1)

\* the orders in which a Go map may yield the keys S
MapOrders(S) ==
  {o \in [1..Cardinality(S) -> S] : \A i, j \in 1..Cardinality(S) : i # j => o[i] # o[j]}

\* os.Create truncates uncovered_lines.txt; its contents are read back into data.
\* A failing os.Create or os.ReadFile is only printed and is not modelled.
PrintUncoveredLines ==
  /\ pc = "print"
  /\ \E order \in MapOrders(DOMAIN partiallyCoveredLines) :
       LET r == RangeLoop([data |-> data, file |-> <<>>], order, 1) IN
         /\ uncovered_lines_txt' = <<r.file>>
         /\ data' = [r.data EXCEPT !.Uncovered_lines = r.file]
  /\ pc' = "percent"
  /\ UNCHANGED excludeVars
  /\ UNCHANGED <<prevCovFile, diffFiles, coverProfiles, prevCoverProfiles, coveredLines,
                 partiallyCoveredLines, err, credited, results>>

\* ------------------------------------------------------------------------
\* computeCoverage: percentages (cover.go:169-184)
\* ------------------------------------------------------------------------
\* faulty variant of Percentages: PatchCoverage is not set to 100 when PatchNumStmt is 0
PercentagesNoDefault(d) ==
  LET d1 == IF d.NumStmt # 0
              THEN [d EXCEPT !.Coverage = Percent(d.CoverCount, d.NumStmt)] ELSE d
      d2 == IF d1.PatchNumStmt # 0
              THEN [d1 EXCEPT !.PatchCoverage = Percent(d1.PatchCoverCount, d1.PatchNumStmt)] ELSE d1
  IN IF d2.PrevNumStmt # 0
       THEN [d2 EXCEPT !.PrevCoverage = Percent(d2.PrevCoverCount, d2.PrevNumStmt)] ELSE d2

Percentages(d) ==
  LET d1 == IF d.NumStmt # 0
              THEN [d EXCEPT !.Coverage = Percent(d.CoverCount, d.NumStmt)] ELSE d
      d2 == IF d1.PatchNumStmt # 0
              THEN [d1 EXCEPT !.PatchCoverage = Percent(d1.PatchCoverCount, d1.PatchNumStmt)] ELSE d1
      d3 == IF d2.PrevNumStmt # 0
              THEN [d2 EXCEPT !.PrevCoverage = Percent(d2.PrevCoverCount, d2.PrevNumStmt)] ELSE d2
  IN IF d3.PatchNumStmt = 0 THEN [d3 EXCEPT !.PatchCoverage = Float(100)] ELSE d3

ComputePercentages ==
  /\ pc = "percent"
  /\ data' = Percentages(data)
  /\ pc' = "return"
  /\ UNCHANGED excludeVars
  /\ UNCHANGED <<prevCovFile, diffFiles, coverProfiles, prevCoverProfiles, coveredLines,
                 partiallyCoveredLines, uncovered_lines_txt, err, credited, results>>

\* faulty variant of Return: HasPrevCoverage is taken from the parsed previous profiles
ReturnPrevFromProfiles ==
  /\ pc = "return"
  /\ data' = [data EXCEPT !.HasPrevCoverage = (prevCoverProfiles # <<>>)]
  /\ results' = Append(results, data')
  /\ pc' = "done"
  /\ UNCHANGED excludeVars
  /\ UNCHANGED <<prevCovFile, diffFiles, coverProfiles, prevCoverProfiles, coveredLines,
                 partiallyCoveredLines, uncovered_lines_txt, err, credited>>

\* ProcessFiles, cover.go:51-52
Return ==
  /\ pc = "return"
  /\ data' = [data EXCEPT !.HasPrevCoverage = (prevCovFile # <<>>)]
  /\ results' = Append(results, data')
  /\ pc' = "done"
  /\ UNCHANGED excludeVars
  /\ UNCHANGED <<prevCovFile, diffFiles, coverProfiles, prevCoverProfiles, coveredLines,
                 partiallyCoveredLines, uncovered_lines_txt, err, credited>>

\* ProcessFiles is called a second time with the same arguments and unchanged input files:
\* the parsers deliver the same values, var data and both maps start empty again
ProcessFilesAgain ==
  /\ pc = "done"
  /\ Len(results) = 1
  /\ pc' = "patch"
  /\ data' = ZeroCoverageData
  /\ coveredLines' = EmptyMap
  /\ partiallyCoveredLines' = EmptyMap
  /\ credited' = <<>>
  /\ UNCHANGED excludeVars
  /\ UNCHANGED <<prevCovFile, diffFiles, coverProfiles, prevCoverProfiles,
                 uncovered_lines_txt, err, results>>

Next ==
  \/ OpenDiff
  \/ OpenDiffFails
  \/ ParseDiff
  \/ ParseDiffFails
  \/ ParseProfiles
  \/ ParseProfilesFails
  \/ ParsePrevProfiles
  \/ ParsePrevProfilesFails
  \/ PatchCoverage
  \/ TotalCoverage
  \/ PrevTotalCoverage
  \/ PrintUncoveredLines
  \/ ComputePercentages
  \/ Return

Spec ==
  Init /\ [][Next]_vars

NextTwice ==
  \/ Next
  \/ ProcessFilesAgain

SpecTwice ==
  Init /\ [][NextTwice]_vars

\* ------------------------------------------------------------------------
\* Exclusion filter (cmd/go-patch-cover/exclude_files.go)
\* ------------------------------------------------------------------------
\* the largest number of comma-separated patterns in excludedPatterns
MaxPatterns == 2

\* strings.ReplaceAll(s, old, new) for a non-empty old
RECURSIVE ReplaceAll(_, _, _)
ReplaceAll(s, old, new) ==
  IF s = <<>> THEN <<>>
  ELSE IF HasPrefix(s, old)
         THEN new \o ReplaceAll(SubSeq(s, Len(old) + 1, Len(s)), old, new)
         ELSE <<Head(s)>> \o ReplaceAll(Tail(s), old, new)

\* strings.Split(s, sep) for a one-character sep
RECURSIVE Split(_, _)
Split(s, sep) ==
  IF \A i \in 1..Len(s) : s[i] # sep THEN <<s>>
  ELSE LET i == CHOOSE k \in 1..Len(s) : s[k] = sep /\ \A j \in 1..(k - 1) : s[j] # sep IN
         <<SubSeq(s, 1, i - 1)>> \o Split(SubSeq(s, i + 1, Len(s)), sep)

\* package regexp, for the expressions matchesPattern can build from the patterns below:
\* a literal character, ".", the class [^/] (kept as one token), a postfix "*", "^" and "$"
AtomMatches(a, c) ==
  IF a = "." THEN c # "\n"
  ELSE IF a = "[^/]" THEN c # "/"
  ELSE a = c

\* the expression re[i..] matches s[j..k] for some k
RECURSIVE MatchHere(_, _, _, _)
MatchHere(re, i, s, j) ==
  IF i > Len(re) THEN TRUE
  ELSE IF re[i] = "^" THEN j = 1 /\ MatchHere(re, i + 1, s, j)
  ELSE IF re[i] = "$" THEN j = Len(s) + 1 /\ MatchHere(re, i + 1, s, j)
  ELSE IF i < Len(re) /\ re[i + 1] = "*"
         THEN \/ MatchHere(re, i + 2, s, j)
              \/ j <= Len(s) /\ AtomMatches(re[i], s[j]) /\ MatchHere(re, i, s, j + 1)
         ELSE j <= Len(s) /\ AtomMatches(re[i], s[j]) /\ MatchHere(re, i + 1, s, j + 1)

\* regexp.MatchString: s contains a match of re
MatchString(re, s) ==
  \E j \in 1..(Len(s) + 1) : MatchHere(re, 1, s, j)

easyjson == <<"e", "a", "s", "y", "j", "s", "o", "n">>

matchesPattern(pat, f) ==
  IF Contains(f, easyjson) THEN TRUE
  ELSE LET regexPattern == <<"^">> \o ReplaceAll(pat, <<"*">>, <<".", "*">>) \o <<"$">> IN
         MatchString(regexPattern, f)

\* <<prefix, repoName>>
getRepoName ==
  IF RepoName = <<"d", "e", "m", "o", "-", "r", "e", "p", "o">>
    THEN <<<<"g", "i", "t", "h", "u", "b", ".", "c", "o", "m", "/", "o", "r", "g", "/">>, <<"d", "e", "m", "o", "_", "r", "e", "p", "o">>>>
    ELSE <<<<"g", "i", "t", "h", "u", "b", ".", "c", "o", "m", "/", "o", "r", "g", "/">>, RepoName>>

\* for _, pattern := range patterns, from patterns[i] on
RECURSIVE PatternLoop(_, _, _)
PatternLoop(patterns, i, fp) ==
  IF i > Len(patterns) THEN FALSE
  ELSE LET pat == getRepoName[1] \o getRepoName[2] \o <<"/">> \o patterns[i] IN
         IF matchesPattern(pat, fp) THEN TRUE ELSE PatternLoop(patterns, i + 1, fp)

shouldExcludeFile(eps, fp) ==
  PatternLoop(Split(eps, ","), 1, fp)

\* the patterns and paths the filter is called with
pDirTest == <<"d", "i", "r", "/", "*", "_", "t", "e", "s", "t", ".", "g", "o">>
pTest == <<"*", "_", "t", "e", "s", "t", ".", "g", "o">>
pMock == <<"*", "*", "/", "m", "o", "c", "k">>
pMain == <<"m", "a", "i", "n", ".", "g", "o">>
fDirTest == <<"d", "i", "r", "/", "x", "_", "t", "e", "s", "t", ".", "g", "o">>
fSubTest == <<"d", "i", "r", "/", "s", "u", "b", "/", "x", "_", "t", "e", "s", "t", ".", "g", "o">>
fEasy == <<"d", "i", "r", "/", "e", "a", "s", "y", "j", "s", "o", "n", ".", "g", "o">>
fDotless == <<"d", "i", "r", "/", "x", "_", "t", "e", "s", "t", "_", "g", "o">>
fMock == <<"a", "/", "b", "/", "m", "o", "c", "k">>
fMain == <<"m", "a", "i", "n", ".", "g", "o">>

Patterns ==
  {pDirTest, pTest, pMock, pMain}

Files ==
  {fDirTest, fSubTest, fEasy, fDotless, fMock, fMain}

RepoNames ==
  {<<"d", "e", "m", "o", "-", "r", "e", "p", "o">>, <<"s", "v", "c">>}

\* the import paths of the files of a module, as a coverage profile names them
FilePaths ==
  {m \o f : m \in {<<"g", "i", "t", "h", "u", "b", ".", "c", "o", "m", "/", "o", "r", "g", "/", "d", "e", "m", "o", "_", "r", "e", "p", "o", "/">>, <<"g", "i", "t", "h", "u", "b", ".", "c", "o", "m", "/", "o", "r", "g", "/", "s", "v", "c", "/">>}, f \in Files}

RECURSIVE Join(_, _)
Join(elems, sep) ==
  IF elems = <<>> THEN <<>>
  ELSE IF Len(elems) = 1 THEN elems[1]
  ELSE elems[1] \o <<sep>> \o Join(Tail(elems), sep)

\* the values of EXCLUDED_CODE_FILES: up to MaxPatterns patterns, "" when there is none
ExcludedPatternsInputs ==
  {Join(ps, ",") : ps \in UNION {[1..n -> Patterns] : n \in 0..MaxPatterns}}

\* ProcessFiles is not called
CoverIdle ==
  /\ pc = "idle"
  /\ prevCovFile = <<>>
  /\ diffFiles = <<>>
  /\ coverProfiles = <<>>
  /\ prevCoverProfiles = <<>>
  /\ data = ZeroCoverageData
  /\ coveredLines = EmptyMap
  /\ partiallyCoveredLines = EmptyMap
  /\ uncovered_lines_txt = <<>>
  /\ err = ""
  /\ credited = <<>>
  /\ results = <<>>

InitExclude ==
  /\ CoverIdle
  /\ RepoName \in RepoNames
  /\ excludedPatterns \in ExcludedPatternsInputs
  /\ filePath \in FilePaths
  /\ excluded = <<>>
  /\ pattern \in Patterns
  /\ file \in Files
  /\ matched = <<>>

ShouldExcludeFile ==
  /\ excluded = <<>>
  /\ excluded' = <<shouldExcludeFile(excludedPatterns, filePath)>>
  /\ UNCHANGED <<RepoName, excludedPatterns, filePath, pattern, file, matched>>
  /\ UNCHANGED coverVars

MatchesPattern ==
  /\ matched = <<>>
  /\ matched' = <<matchesPattern(pattern, file)>>
  /\ UNCHANGED <<RepoName, excludedPatterns, filePath, excluded, pattern, file>>
  /\ UNCHANGED coverVars

NextExclude ==
  \/ ShouldExcludeFile
  \/ MatchesPattern

SpecExclude ==
  InitExclude /\ [][NextExclude]_vars

\* ------------------------------------------------------------------------
\* Vocabulary of the properties
\* ------------------------------------------------------------------------
\* the sum of a sequence of numbers
RECURSIVE Sum(_)
Sum(ns) ==
  IF ns = <<>> THEN 0 ELSE Head(ns) + Sum(Tail(ns))

\* suffix is a suffix of s: s = x \o suffix for some x
EndsWith(s, suffix) ==
  \E n \in 0..Len(s) : suffix = [i \in 1..(Len(s) - n) |-> s[n + i]]

\* the block, hunk, raw line and recorded text of an entry of credited
BlockOf(c) ==
  coverProfiles[c.p].Blocks[c.b]

FragmentOf(c) ==
  diffFiles[c.f].TextFragments[c.t]

TextOf(c) ==
  RemoveAll(FragmentOf(c).Lines[c.k].Line, "\n")

\* the entry of credited was later taken back by the invalid-line correction
Corrected(c) ==
  BlockOf(c).Count <= 0 /\ isInvalidLine(TextOf(c))

\* every block of every profile, one after the other
RECURSIVE Flatten(_)
Flatten(profiles) ==
  IF profiles = <<>> THEN <<>> ELSE Head(profiles).Blocks \o Flatten(Tail(profiles))

\* the Add lines <<ti, k>> of file f whose computed line number is inside block b
HitsOf(b, f) ==
  {h \in UNION {{<<ti, k>> : k \in 1..Len(f.TextFragments[ti].Lines)} : ti \in 1..Len(f.TextFragments)} :
     Hit(b, f.TextFragments[h[1]], h[2])}

\* the <<pi, fi>> whose profile file name ends with the diff file's new name
MatchedPairs ==
  {m \in (1..Len(coverProfiles)) \X (1..Len(diffFiles)) :
     EndsWith(coverProfiles[m[1]].FileName, diffFiles[m[2]].NewName)}

Correlated ==
  pc \in {"percent", "return", "done"}

Returned ==
  pc = "done"

PatchDone ==
  pc \in {"total", "prevTotal", "print", "percent", "return", "done"}

\* the NumStmt of every entry of credited that F accepts, added up
CreditedStmts(F(_)) ==
  Sum([i \in 1..Len(credited) |-> IF F(credited[i]) THEN BlockOf(credited[i]).NumStmt ELSE 0])

\* the text written for the line <<ti, k>> of file f when block b is credited for it
ListedText(b, f, h) ==
  LineText(Line(LineNumOf(f.TextFragments[h[1]], h[2]), b.NumStmt, b.Count,
                RemoveAll(f.TextFragments[h[1]].Lines[h[2]].Line, "\n")))

HitText(f, h) ==
  RemoveAll(f.TextFragments[h[1]].Lines[h[2]].Line, "\n")

\* the line number, in the new file, of line k of hunk t: Delete lines are not in the new file
NewFileLine(t, k) ==
  t.NewPosition + NewLen(SubSeq(t.Lines, 1, k - 1))

\* ------------------------------------------------------------------------
\* C1
\* ------------------------------------------------------------------------
\* C1: once the invalid-line corrections have been applied, and in the report that is
\* returned, PatchCoverCount <= PatchNumStmt, CoverCount <= NumStmt and
\* PrevCoverCount <= PrevNumStmt (the blocks' NumStmt are >= 0).
CountsWithinTotals ==
  Correlated =>
    /\ data.PatchCoverCount <= data.PatchNumStmt
    /\ data.CoverCount <= data.NumStmt
    /\ data.PrevCoverCount <= data.PrevNumStmt

\* a returned report where a correction was applied and the patch bound is tight
CountsWithinTotalsWitness ==
  /\ Returned
  /\ \E i \in 1..Len(credited) : Corrected(credited[i]) /\ BlockOf(credited[i]).NumStmt > 0
  /\ data.PatchCoverCount > 0
  /\ data.PatchCoverCount = data.PatchNumStmt

\* ------------------------------------------------------------------------
\* C2
\* ------------------------------------------------------------------------
\* C2 as stated: a block of a profile entry is credited at most once, whatever the diff.
CreditedOncePerBlock ==
  \A i, j \in 1..Len(credited) :
    i # j => <<credited[i].p, credited[i].b>> # <<credited[j].p, credited[j].b>>

\* C2, amended: a block of a profile entry is credited at most once for each diff file
\* its entry is matched with, however many Add lines of that file fall inside its range;
\* PatchNumStmt and PatchCoverCount after the matching are the sums over these credits.
CreditedOncePerMatchedFile ==
  /\ \A i, j \in 1..Len(credited) :
       i # j => <<credited[i].p, credited[i].f, credited[i].b>> # <<credited[j].p, credited[j].f, credited[j].b>>
  /\ pc = "total" =>
       /\ data.PatchNumStmt = CreditedStmts(LAMBDA c : TRUE)
       /\ data.PatchCoverCount = CreditedStmts(LAMBDA c : BlockOf(c).Count > 0)

\* the matching is done and a credited block has two or more Add lines in its range
CreditedOncePerMatchedFileWitness ==
  /\ pc = "total"
  /\ \E i \in 1..Len(credited) :
       /\ Cardinality(HitsOf(BlockOf(credited[i]), diffFiles[credited[i].f])) >= 2
       /\ BlockOf(credited[i]).NumStmt > 0

\* ------------------------------------------------------------------------
\* C3
\* ------------------------------------------------------------------------
\* the blocks <<pi, fi, bi>> of matched pairs that have a valid Add line in their range
BlocksWithValidLine ==
  {x \in UNION {{<<m[1], m[2], bi>> : bi \in 1..Len(coverProfiles[m[1]].Blocks)} : m \in MatchedPairs} :
     \E h \in HitsOf(coverProfiles[x[1]].Blocks[x[3]], diffFiles[x[2]]) :
       ~isInvalidLine(HitText(diffFiles[x[2]], h))}

RECURSIVE StmtsOf(_)
StmtsOf(S) ==
  IF S = {} THEN 0
  ELSE LET x == CHOOSE y \in S : TRUE IN
         coverProfiles[x[1]].Blocks[x[3]].NumStmt + StmtsOf(S \ {x})

\* C3: a block all of whose added lines are invalid adds nothing to the final PatchNumStmt,
\* whatever its Count: the final PatchNumStmt is at most the NumStmt of the other blocks.
InvalidOnlyBlocksAddNothing ==
  Returned => data.PatchNumStmt <= StmtsOf(BlocksWithValidLine)

\* ------------------------------------------------------------------------
\* C4
\* ------------------------------------------------------------------------
\* C4: a second call on the same inputs returns the same CoverageData in every field.
SecondCallIdentical ==
  Len(results) = 2 => results[2] = results[1]

\* ------------------------------------------------------------------------
\* C5
\* ------------------------------------------------------------------------
\* C5: the line number a block is matched with is the line's number in the new file.
MatchedNumberIsNewFileLine ==
  \A i \in 1..Len(credited) :
    credited[i].lineNum = NewFileLine(FragmentOf(credited[i]), credited[i].k)

\* ------------------------------------------------------------------------
\* C6
\* ------------------------------------------------------------------------
\* C6: every valid Add line inside the range of a block with Count 0 is listed in the
\* uncovered lines, the block adding its NumStmt to PatchNumStmt only; in Scenario B
\* PatchNumStmt = 2, PatchCoverCount = 0, PatchCoverage = 0 and lines 10, 11, 12 are listed.
UncoveredBlockLinesListed ==
  Returned =>
    /\ \A m \in MatchedPairs : \A bi \in 1..Len(coverProfiles[m[1]].Blocks) :
         LET b == coverProfiles[m[1]].Blocks[bi]
             f == diffFiles[m[2]]
         IN b.Count = 0 =>
              \A h \in HitsOf(b, f) :
                ~isInvalidLine(HitText(f, h)) => Contains(data.Uncovered_lines, ListedText(b, f, h))
    /\ data.PatchCoverCount = CreditedStmts(LAMBDA c : BlockOf(c).Count > 0)
    /\ (diffFiles \in ScenarioB.diffs /\ coverProfiles \in ScenarioB.covers) =>
         /\ data.PatchNumStmt = 2
         /\ data.PatchCoverCount = 0
         /\ data.PatchCoverage = Float(0)

IsPercentOf(pct, count, stmts) ==
  /\ pct[2] > 0
  /\ pct[1] * stmts = 100 * count * pct[2]

NoAddLineMatched ==
  \A m \in MatchedPairs :
    \A ti \in 1..Len(diffFiles[m[2]].TextFragments) :
      \A k \in 1..Len(diffFiles[m[2]].TextFragments[ti].Lines) :
        diffFiles[m[2]].TextFragments[ti].Lines[k].Op # OpAdd

\* C8: in the returned report Coverage = 100 * CoverCount / NumStmt when NumStmt > 0 and 0
\* when NumStmt = 0, PrevCoverage likewise, PatchCoverage = 100 * PatchCoverCount /
\* PatchNumStmt when the corrected PatchNumStmt > 0 and 100 when it is 0; with no Add line
\* in any matched diff file PatchNumStmt = 0 and PatchCoverage = 100.
PercentagesDefined ==
  pc \in {"return", "done"} =>
    /\ IF data.NumStmt > 0
         THEN IsPercentOf(data.Coverage, data.CoverCount, data.NumStmt)
         ELSE data.NumStmt = 0 /\ data.Coverage = Float(0)
    /\ IF data.PrevNumStmt > 0
         THEN IsPercentOf(data.PrevCoverage, data.PrevCoverCount, data.PrevNumStmt)
         ELSE data.PrevNumStmt = 0 /\ data.PrevCoverage = Float(0)
    /\ IF data.PatchNumStmt > 0
         THEN IsPercentOf(data.PatchCoverage, data.PatchCoverCount, data.PatchNumStmt)
         ELSE data.PatchNumStmt = 0 /\ data.PatchCoverage = Float(100)
    /\ NoAddLineMatched => data.PatchNumStmt = 0 /\ data.PatchCoverage = Float(100)

\* a matched file without Add lines, with covered statements in the profile
PercentagesDefinedWitness ==
  /\ Returned
  /\ MatchedPairs # {}
  /\ NoAddLineMatched
  /\ data.CoverCount > 0
  /\ data.PatchCoverage = Float(100)

\* ------------------------------------------------------------------------
\* C9
\* ------------------------------------------------------------------------
UnmatchedProfiles ==
  {pi \in 1..Len(coverProfiles) : \A fi \in 1..Len(diffFiles) : <<pi, fi>> \notin MatchedPairs}

UnmatchedDiffFiles ==
  {fi \in 1..Len(diffFiles) : \A pi \in 1..Len(coverProfiles) : <<pi, fi>> \notin MatchedPairs}

StmtsIn(profiles) ==
  Sum([i \in 1..Len(Flatten(profiles)) |-> Flatten(profiles)[i].NumStmt])

CoveredStmtsIn(profiles) ==
  Sum([i \in 1..Len(Flatten(profiles)) |->
         IF Flatten(profiles)[i].Count > 0 THEN Flatten(profiles)[i].NumStmt ELSE 0])

\* C10: NumStmt and CoverCount are the sums over all blocks of the current profile,
\* PrevNumStmt and PrevCoverCount the sums over the previous profile, from the moment they
\* are computed to the returned report: the diff, the matching and the invalid-line
\* corrections have no part in them.
TotalsAreBlockSums ==
  /\ pc \in {"prevTotal", "print", "percent", "return", "done"} =>
       /\ data.NumStmt = StmtsIn(coverProfiles)
       /\ data.CoverCount = CoveredStmtsIn(coverProfiles)
  /\ pc \in {"print", "percent", "return", "done"} =>
       /\ data.PrevNumStmt = StmtsIn(prevCoverProfiles)
       /\ data.PrevCoverCount = CoveredStmtsIn(prevCoverProfiles)

\* a returned report after a correction, with covered and uncovered statements
TotalsAreBlockSumsWitness ==
  /\ Returned
  /\ \E i \in 1..Len(credited) : Corrected(credited[i]) /\ BlockOf(credited[i]).NumStmt > 0
  /\ data.CoverCount > 0
  /\ data.CoverCount < data.NumStmt
  /\ data.PatchNumStmt < data.NumStmt

\* ------------------------------------------------------------------------
\* C11
\* ------------------------------------------------------------------------
\* C11: in the report ProcessFiles returns, HasPrevCoverage is true exactly when a previous
\* coverage file was supplied (prevCovFile is not ""), also when that profile has no blocks;
\* when none is supplied HasPrevCoverage is false and PrevNumStmt, PrevCoverCount and
\* PrevCoverage are 0
HasPrevIffSupplied ==
  Returned =>
    /\ data.HasPrevCoverage <=> (prevCovFile # <<>>)
    /\ prevCovFile = <<>> =>
         /\ ~data.HasPrevCoverage
         /\ data.PrevNumStmt = 0
         /\ data.PrevCoverCount = 0
         /\ data.PrevCoverage = Float(0)

\* a previous profile was supplied, has no blocks, and the report still says HasPrevCoverage
HasPrevIffSuppliedWitness ==
  /\ Returned
  /\ prevCovFile # <<>>
  /\ prevCoverProfiles = <<>>
  /\ data.HasPrevCoverage
  /\ data.PrevNumStmt = 0

\* ------------------------------------------------------------------------
\* C12
\* ------------------------------------------------------------------------
\* computeCoverage has been entered
CorrelationStarted ==
  pc \in {"patch", "total", "prevTotal", "print", "percent", "return", "done"}

\* C12: when opening or parsing the diff, parsing the current profile or parsing a supplied
\* previous profile fails, ProcessFiles returns the error with a zero-valued CoverageData and
\* computeCoverage is never started (nothing is credited, no line is recorded,
\* uncovered_lines.txt is not created); computeCoverage runs only when no input has failed
ErrorReturnsBeforeCorrelation ==
  /\ pc = "error" =>
       /\ err # ""
       /\ data = ZeroCoverageData
       /\ credited = <<>>
       /\ coveredLines = EmptyMap
       /\ partiallyCoveredLines = EmptyMap
       /\ uncovered_lines_txt = <<>>
       /\ results = <<>>
  /\ err # "" => pc = "error"
  /\ CorrelationStarted => err = ""

\* the diff and the current profile parsed, the supplied previous profile did not
ErrorReturnsBeforeCorrelationWitness ==
  /\ pc = "error"
  /\ prevCovFile # <<>>
  /\ err = "cover.ParseProfiles prev"
  /\ data = ZeroCoverageData
  /\ uncovered_lines_txt = <<>>

\* ------------------------------------------------------------------------
\* C13
\* ------------------------------------------------------------------------
\* the expression rule 2 of matchesPattern describes: * is zero or more characters other than '/'
StarRegexp(pat) ==
  <<"^">> \o ReplaceAll(pat, <<"*">>, <<"[^/]", "*">>) \o <<"$">>

\* C13: for a file path that does not contain "easyjson", matchesPattern treats a single * of
\* the pattern as zero or more characters other than '/': dir/*_test.go matches
\* dir/x_test.go and does not match dir/sub/x_test.go
StarExcludesSlash ==
  (matched # <<>> /\ ~Contains(file, easyjson) /\ ~Contains(pattern, <<"*", "*">>)) =>
    /\ matched[1] = MatchString(StarRegexp(pattern), file)
    /\ (pattern = pDirTest /\ file = fDirTest) => matched[1]
    /\ (pattern = pDirTest /\ file = fSubTest) => ~matched[1]

MatchCount(pi) ==
  Cardinality({fi \in 1..Len(diffFiles) : <<pi, fi>> \in MatchedPairs})

\* C15 as stated: in the returned report 0 <= PatchNumStmt <= NumStmt and
\* 0 <= PatchCoverCount <= CoverCount, also when a profile entry is matched by several diff files
PatchWithinRepositoryTotals ==
  Returned =>
    /\ 0 <= data.PatchNumStmt
    /\ data.PatchNumStmt <= data.NumStmt
    /\ 0 <= data.PatchCoverCount
    /\ data.PatchCoverCount <= data.CoverCount

\* C15, amended: in the returned report PatchNumStmt and PatchCoverCount are not negative and
\* are at most the (covered) statements of every profile entry counted once for each diff file
\* the entry is matched with; they stay within NumStmt and CoverCount when every profile
\* entry is matched with at most one diff file
PatchWithinMatchedTotals ==
  Returned =>
    /\ 0 <= data.PatchNumStmt
    /\ 0 <= data.PatchCoverCount
    /\ data.PatchNumStmt <=
         Sum([pi \in 1..Len(coverProfiles) |-> MatchCount(pi) * StmtsIn(<<coverProfiles[pi]>>)])
    /\ data.PatchCoverCount <=
         Sum([pi \in 1..Len(coverProfiles) |-> MatchCount(pi) * CoveredStmtsIn(<<coverProfiles[pi]>>)])
    /\ (\A pi \in 1..Len(coverProfiles) : MatchCount(pi) <= 1) =>
         /\ data.PatchNumStmt <= data.NumStmt
         /\ data.PatchCoverCount <= data.CoverCount

\* a profile entry is matched with two diff files and the report's patch totals are above
\* its repository totals
PatchWithinMatchedTotalsWitness ==
  /\ Returned
  /\ \E pi \in 1..Len(coverProfiles) : MatchCount(pi) >= 2
  /\ data.PatchNumStmt > data.NumStmt
  /\ data.PatchCoverCount > data.CoverCount

====
